---- MODULE Spec2Model ----
(***************************************************************************)
(* Engagement store and recommendation engine of wikipedia-feed            *)
(* (src/engine/engagement.py, src/engine/recommendations.py).              *)
(*                                                                         *)
(* The SQLite tables are the state: `articles` (with the article's         *)
(* category links), `engagement` (the event log) and the clock `now`, in   *)
(* whole days.  `ret` holds what the last call returned until the caller   *)
(* takes it.  Python floats are modelled as exact rationals <<n, d>>.      *)
(* `sessions` is the reading_sessions table.  `calls` holds the calls that *)
(* run at the same time on connections of their own, each with the         *)
(* statement it has reached.                                               *)
(***************************************************************************)
EXTENDS Integers, Sequences, FiniteSets, TLC

VARIABLES articles, engagement, sessions, now, ret, calls

vars == <<articles, engagement, sessions, now, ret, calls>>

(***************************************************************************)
(* Bounds of the model.                                                    *)
(***************************************************************************)
MaxEvents == 2        \* events recorded in a run of Spec
MaxPrefEvents == 4    \* events recorded in a run of SpecPrefs
MaxDay == 1           \* days the clock advances in a run of SpecPrefs
MaxCount == 2         \* largest `count` asked of get_recommendations

(***************************************************************************)
(* Exact rational arithmetic: <<n, d>> with d > 0, in lowest terms.        *)
(***************************************************************************)
Abs(x) == IF x < 0 THEN -x ELSE x

RECURSIVE GCD(_, _)
GCD(a, b) == IF b = 0 THEN a ELSE GCD(b, a % b)

Rat(n, d) ==
    LET s == IF d < 0 THEN -1 ELSE 1
        g == GCD(Abs(n), Abs(d))
    IN  <<(s * n) \div g, (s * d) \div g>>

RatInt(n) == <<n, 1>>
RatAdd(x, y) == Rat(x[1] * y[2] + y[1] * x[2], x[2] * y[2])
RatMul(x, y) == Rat(x[1] * y[1], x[2] * y[2])
RatDiv(x, y) == Rat(x[1] * y[2], x[2] * y[1])
RatSub(x, y) == RatAdd(x, <<-y[1], y[2]>>)
RatLess(x, y) == x[1] * y[2] < y[1] * x[2]
RatLeq(x, y) == x[1] * y[2] <= y[1] * x[2]
RatMin(x, y) == IF RatLess(y, x) THEN y ELSE x
RatMax(x, y) == IF RatLess(x, y) THEN y ELSE x
RatAbs(x) == <<Abs(x[1]), x[2]>>
RatZero == RatInt(0)
RatOne == RatInt(1)
RatHalf == Rat(1, 2)

RECURSIVE RatPow(_, _)
RatPow(x, k) == IF k = 0 THEN RatOne ELSE RatMul(x, RatPow(x, k - 1))

\* int(x) of Python: truncation toward zero.
RatTrunc(x) == IF x[1] >= 0 THEN x[1] \div x[2] ELSE -((-x[1]) \div x[2])

\* max(values) of a non-empty set of rationals.
RatSetMax(S) == CHOOSE m \in S : \A x \in S : RatLeq(x, m)

(***************************************************************************)
(* The article table.  An article's `cats` is both its categories column   *)
(* and its article_categories rows.                                        *)
(***************************************************************************)
ArticleTable ==
    <<[cats |-> {"Science"},            access_count |-> 150],
      [cats |-> {"Sports"},             access_count |-> 10],
      [cats |-> {"Science", "History"}, access_count |-> 10]>>

ArticleIds == DOMAIN ArticleTable

Users == {"captain", "guest"}

EventTypes == {"view", "read", "bookmark", "skip", "scroll"}

\* days: int = 30, the default window of get_user_category_preferences
DefaultDays == 30

(***************************************************************************)
(* EngagementTracker.record_event: INSERT one row, return lastrowid.       *)
(* The row's id is its position in the log; timestamp defaults to now.     *)
(***************************************************************************)
NewEvent(article_id, event_type, user_id, duration_seconds, scroll_depth) ==
    [id |-> Len(engagement) + 1,
     article_id |-> article_id,
     user_id |-> user_id,
     event_type |-> event_type,
     duration_seconds |-> duration_seconds,
     scroll_depth |-> scroll_depth,
     timestamp |-> now]

\* Mutant: the statement's row count (always 1) returned for lastrowid.
record_event_rowcount(article_id, event_type, user_id, duration_seconds, scroll_depth) ==
    /\ ret.op = "idle"
    /\ engagement' = Append(engagement,
            NewEvent(article_id, event_type, user_id, duration_seconds, scroll_depth))
    /\ ret' = [op |-> "record_event", event_id |-> 1]
    /\ UNCHANGED <<articles, sessions, now, calls>>

record_event(article_id, event_type, user_id, duration_seconds, scroll_depth) ==
    /\ ret.op = "idle"
    /\ engagement' = Append(engagement,
            NewEvent(article_id, event_type, user_id, duration_seconds, scroll_depth))
    /\ ret' = [op |-> "record_event", event_id |-> Len(engagement) + 1]
    /\ UNCHANGED <<articles, sessions, now, calls>>

(***************************************************************************)
(* EngagementTracker.get_user_category_preferences                         *)
(***************************************************************************)
\* weights.get(event_type, 1.0)
EventWeight(event_type) ==
    CASE event_type = "view" -> RatInt(1)
      [] event_type = "read" -> RatInt(2)
      [] event_type = "bookmark" -> RatInt(5)
      [] event_type = "skip" -> RatInt(-2)
      [] event_type = "scroll" -> RatHalf
      [] OTHER -> RatInt(1)

\* time_factor = min((duration or 0) / 600, 1.0)
TimeFactor(duration) == RatMin(Rat(duration, 600), RatOne)

\* recency_factor = 0.9 ** days_ago
RecencyFactor(days_ago) == RatPow(Rat(9, 10), days_ago)

\* days_ago = (datetime.now() - datetime.fromisoformat(timestamp)).days
DaysAgo(e, today) == today - e.timestamp

\* score = weight * time_factor * recency_factor
EventScore(e, today) ==
    RatMul(RatMul(EventWeight(e.event_type), TimeFactor(e.duration_seconds)),
           RecencyFactor(DaysAgo(e, today)))

\* WHERE e.user_id = ? AND e.timestamp > datetime('now', '-' || ? || ' days'),
\* with the JOIN on articles.
InWindow(e, user_id, days, tbl, today) ==
    /\ e.user_id = user_id
    /\ e.article_id \in DOMAIN tbl
    /\ e.timestamp > today - days

\* The outer query returns one row per (event, category link of its article);
\* the inner loop then adds the row's score to every category of the article.
\* Score added to category cat by the rows of event e.
RowsContribution(e, cat, tbl, today) ==
    LET cats == tbl[e.article_id].cats
    IN  IF cat \in cats
        THEN RatMul(RatInt(Cardinality(cats)), EventScore(e, today))
        ELSE RatZero

RECURSIVE CategoryScore(_, _, _, _, _, _)
CategoryScore(log, i, cat, user_id, days, tbl) ==
    IF i = 0 THEN RatZero
    ELSE RatAdd(CategoryScore(log, i - 1, cat, user_id, days, tbl),
                IF InWindow(log[i], user_id, days, tbl, now)
                THEN RowsContribution(log[i], cat, tbl, now)
                ELSE RatZero)

\* keys of category_scores: the categories of the articles of in-window events
ScoredCategories(log, user_id, days, tbl) ==
    UNION {tbl[log[i].article_id].cats :
             i \in {j \in DOMAIN log : InWindow(log[j], user_id, days, tbl, now)}}

\* max_score = max(category_scores.values()) if category_scores else 1
\* normalized = {k: v / max_score ...}; a zero max_score raises.
Normalize(scores) ==
    IF DOMAIN scores = {} THEN [status |-> "ok", weights |-> scores]
    ELSE LET max_score == RatSetMax({scores[c] : c \in DOMAIN scores})
         IN  IF max_score = RatZero
             THEN [status |-> "ZeroDivisionError"]
             ELSE [status |-> "ok",
                   weights |-> [c \in DOMAIN scores |-> RatDiv(scores[c], max_score)]]

category_scores(log, user_id, days, tbl) ==
    [c \in ScoredCategories(log, user_id, days, tbl) |->
        CategoryScore(log, Len(log), c, user_id, days, tbl)]

UserCategoryPreferences(log, user_id, days, tbl) ==
    Normalize(category_scores(log, user_id, days, tbl))

get_user_category_preferences(user_id, days) ==
    /\ ret.op = "idle"
    /\ ret' = [op |-> "get_user_category_preferences",
               user_id |-> user_id,
               days |-> days,
               scores |-> category_scores(engagement, user_id, days, articles),
               result |-> UserCategoryPreferences(engagement, user_id, days, articles)]
    /\ UNCHANGED <<articles, engagement, sessions, now, calls>>

(***************************************************************************)
(* RecommendationEngine._get_category_weights                              *)
(***************************************************************************)
\* CASE WHEN e.event_type = 'view' THEN 1.0 ... ELSE 0.5 END
SqlEventWeight(event_type) ==
    CASE event_type = "view" -> RatInt(1)
      [] event_type = "read" -> RatInt(2)
      [] event_type = "bookmark" -> RatInt(5)
      [] event_type = "skip" -> RatInt(-2)
      [] OTHER -> RatHalf

\* CASE WHEN e.duration_seconds > 0 THEN MIN(e.duration_seconds / 600.0, 1.0)
\* ELSE 0.5 END
SqlTimeFactor(duration) ==
    IF duration > 0 THEN RatMin(Rat(duration, 600), RatOne) ELSE RatHalf

\* engagement JOIN article_categories JOIN categories WHERE e.user_id = ?
JoinsCategory(e, cat, user_id, tbl) ==
    /\ e.user_id = user_id
    /\ e.article_id \in DOMAIN tbl
    /\ cat \in tbl[e.article_id].cats

\* SUM(...) of one GROUP BY c.name group
RECURSIVE SqlCategorySum(_, _, _, _, _)
SqlCategorySum(log, i, cat, user_id, tbl) ==
    IF i = 0 THEN RatZero
    ELSE RatAdd(SqlCategorySum(log, i - 1, cat, user_id, tbl),
                IF JoinsCategory(log[i], cat, user_id, tbl)
                THEN RatMul(SqlEventWeight(log[i].event_type),
                            SqlTimeFactor(log[i].duration_seconds))
                ELSE RatZero)

\* The groups of the query.  LIMIT 50 keeps them all: the category table
\* holds fewer than 50 names.
SqlCategoryGroups(log, user_id, tbl) ==
    UNION {tbl[log[i].article_id].cats :
             i \in {j \in DOMAIN log : /\ log[j].user_id = user_id
                                       /\ log[j].article_id \in DOMAIN tbl}}

\* Mutant: the sum taken as the weight, without the minimum of 0.1.
FlooredWeightUnfloored(sum) == sum

\* weights[row[0]] = max(0.1, row[1])
FlooredWeight(sum) == RatMax(Rat(1, 10), sum)

\* if weights: max_w = max(weights.values()); weights = {k: v / max_w ...}
NormalizeWeights(weights) ==
    IF DOMAIN weights = {} THEN weights
    ELSE LET max_w == RatSetMax({weights[c] : c \in DOMAIN weights})
         IN  [c \in DOMAIN weights |-> RatDiv(weights[c], max_w)]

\* the rows of the query: the sum of every group
CategorySums(log, user_id, tbl) ==
    [c \in SqlCategoryGroups(log, user_id, tbl) |->
        SqlCategorySum(log, Len(log), c, user_id, tbl)]

\* weights, before it is normalized
FlooredWeights(log, user_id, tbl) ==
    [c \in SqlCategoryGroups(log, user_id, tbl) |->
        FlooredWeight(CategorySums(log, user_id, tbl)[c])]

CategoryWeights(log, user_id, tbl) ==
    NormalizeWeights(FlooredWeights(log, user_id, tbl))

\* The method called by itself; v / max_w raises when max_w is zero.
_get_category_weights(user_id) ==
    LET weights == FlooredWeights(engagement, user_id, articles)
        faults == /\ DOMAIN weights # {}
                  /\ RatSetMax({weights[c] : c \in DOMAIN weights}) = RatZero
    IN  /\ ret.op = "idle"
        /\ ret' = IF faults
                  THEN [op |-> "_get_category_weights",
                        user_id |-> user_id,
                        sums |-> CategorySums(engagement, user_id, articles),
                        status |-> "ZeroDivisionError"]
                  ELSE [op |-> "_get_category_weights",
                        user_id |-> user_id,
                        sums |-> CategorySums(engagement, user_id, articles),
                        status |-> "ok",
                        result |-> NormalizeWeights(weights)]
        /\ UNCHANGED <<articles, engagement, sessions, now, calls>>

(***************************************************************************)
(* RecommendationEngine._get_read_articles                                 *)
(***************************************************************************)
\* Mutant: only 'read' events count as read, 'view' forgotten.
ReadArticlesReadOnly(log, user_id) ==
    {log[i].article_id :
        i \in {j \in DOMAIN log : /\ log[j].user_id = user_id
                                  /\ log[j].event_type = "read"}}

ReadArticles(log, user_id) ==
    {log[i].article_id :
        i \in {j \in DOMAIN log : /\ log[j].user_id = user_id
                                  /\ log[j].event_type \in {"view", "read"}}}

(***************************************************************************)
(* RecommendationEngine._score_articles                                    *)
(***************************************************************************)
\* LIMIT 500 of the candidate query
ScoreLimit == 500

\* (a.categories LIKE '%cat%') for some weighted category
MatchesCategoryFilter(a, category_weights, tbl) ==
    category_weights = <<>> \/ tbl[a].cats \cap DOMAIN category_weights # {}

\* Mutant: the exclude filter left out of the candidate query.
ScoreCandidatesNoExclude(category_weights, exclude_set, tbl) ==
    {a \in DOMAIN tbl : /\ a > 0
                        /\ MatchesCategoryFilter(a, category_weights, tbl)}

\* WHERE a.id > 0 {category_filter} {exclude_filter}
ScoreCandidates(category_weights, exclude_set, tbl) ==
    {a \in DOMAIN tbl : /\ a > 0
                        /\ MatchesCategoryFilter(a, category_weights, tbl)
                        /\ a \notin exclude_set}

\* The orders a query may return the rows of S in under
\* ORDER BY a.access_count DESC: rows of equal count come in any order.
AccessCountOrders(S, tbl) ==
    {f \in [1..Cardinality(S) -> S] :
        /\ \A i, j \in DOMAIN f : i # j => f[i] # f[j]
        /\ \A i, j \in DOMAIN f :
              i < j => tbl[f[i]].access_count >= tbl[f[j]].access_count}

Limit(seq, n) == SubSeq(seq, 1, IF Len(seq) < n THEN Len(seq) ELSE n)

\* category_score: best weight among the article's weighted categories, or 0.5
ArticleCategoryScore(a, category_weights, tbl) ==
    LET match_scores ==
            {category_weights[c] : c \in tbl[a].cats \cap DOMAIN category_weights}
    IN  IF tbl[a].cats # {} /\ DOMAIN category_weights # {} /\ match_scores # {}
        THEN RatSetMax(match_scores)
        ELSE RatHalf

\* Mutant: the boost without its cap at 100 accesses.
PopularityBoostUncapped(a, tbl) ==
    RatMul(Rat(tbl[a].access_count, 100), Rat(2, 10))

\* popularity_boost = min(article['access_count'] / 100, 1.0) * 0.2
PopularityBoost(a, tbl) ==
    RatMul(RatMin(Rat(tbl[a].access_count, 100), RatOne), Rat(2, 10))

\* total_score = (category_score * 0.7) + (popularity_boost * 0.3)
TotalScore(a, category_weights, tbl) ==
    RatAdd(RatMul(ArticleCategoryScore(a, category_weights, tbl), Rat(7, 10)),
           RatMul(PopularityBoost(a, tbl), Rat(3, 10)))

\* Mutant: the sort without reverse=True, ascending.
InsertByScoreAscending(sorted, x) ==
    LET k == Cardinality({i \in DOMAIN sorted : RatLeq(sorted[i].score, x.score)})
    IN  SubSeq(sorted, 1, k) \o <<x>> \o SubSeq(sorted, k + 1, Len(sorted))

\* Mutant: an unstable sort, an article put before those of equal score.
InsertByScoreBeforeTies(sorted, x) ==
    LET k == Cardinality({i \in DOMAIN sorted : RatLess(x.score, sorted[i].score)})
    IN  SubSeq(sorted, 1, k) \o <<x>> \o SubSeq(sorted, k + 1, Len(sorted))

\* scored.sort(key=lambda x: x[1], reverse=True): stable, descending
InsertByScore(sorted, x) ==
    LET k == Cardinality({i \in DOMAIN sorted : RatLeq(x.score, sorted[i].score)})
    IN  SubSeq(sorted, 1, k) \o <<x>> \o SubSeq(sorted, k + 1, Len(sorted))

RECURSIVE SortByScore(_)
SortByScore(seq) ==
    IF seq = <<>> THEN <<>>
    ELSE InsertByScore(SortByScore(SubSeq(seq, 1, Len(seq) - 1)), seq[Len(seq)])

\* rows: the candidate rows in the order the query returned them
ScoreArticles(category_weights, rows, tbl) ==
    SortByScore([i \in DOMAIN rows |->
        [id |-> rows[i], score |-> TotalScore(rows[i], category_weights, tbl)]])

(***************************************************************************)
(* RecommendationEngine._get_random_articles                               *)
(***************************************************************************)
\* WHERE a.id NOT IN (exclude_set)
RandomPool(exclude_set, tbl) == {a \in DOMAIN tbl : a \notin exclude_set}

\* ORDER BY RANDOM() LIMIT count: any `count` distinct rows of the pool, in
\* any order, or the whole pool when it is smaller.
RandomSamples(exclude_set, count, tbl) ==
    LET pool == RandomPool(exclude_set, tbl)
        n == IF Cardinality(pool) < count THEN Cardinality(pool) ELSE count
    IN  {f \in [1..n -> pool] : \A i, j \in DOMAIN f : i # j => f[i] # f[j]}

(***************************************************************************)
(* RecommendationEngine.get_recommendations                                *)
(***************************************************************************)
\* Mutant: feed_mix taken as the recommended share.
RecommendCountOfMix(count, feed_mix) ==
    RatTrunc(RatMul(RatInt(count), feed_mix))

\* recommend_count = int(count * (1 - feed_mix))
RecommendCount(count, feed_mix) ==
    RatTrunc(RatMul(RatInt(count), RatSub(RatOne, feed_mix)))

\* the entries made of scored_articles[:recommend_count]
Recommended(scored, recommend_count) ==
    IF scored # <<>> /\ recommend_count > 0
    THEN [i \in DOMAIN Limit(scored, recommend_count) |->
            [id |-> scored[i].id,
             relevance_score |-> scored[i].score,
             recommendation_type |-> "recommended"]]
    ELSE <<>>

\* the entries made of the random articles
Discovery(sample) ==
    [i \in DOMAIN sample |->
        [id |-> sample[i],
         relevance_score |-> Rat(3, 10),
         recommendation_type |-> "discovery"]]

\* random.shuffle(recommendations): any order of the same entries
Shuffles(seq) ==
    {[i \in DOMAIN seq |-> seq[p[i]]] : p \in Permutations(DOMAIN seq)}

get_recommendations(user_id, count, feed_mix, excluded_articles) ==
    LET category_weights == CategoryWeights(engagement, user_id, articles)
        read_articles == ReadArticles(engagement, user_id)
        exclude_set == excluded_articles \cup read_articles
        recommend_count == RecommendCount(count, feed_mix)
        random_count == count - recommend_count
    IN  /\ ret.op = "idle"
        /\ \E rows \in AccessCountOrders(
                   ScoreCandidates(category_weights, exclude_set, articles), articles) :
           \E sample \in (IF random_count > 0
                          THEN RandomSamples(exclude_set, random_count, articles)
                          ELSE {<<>>}) :
             LET scored_articles ==
                     ScoreArticles(category_weights, Limit(rows, ScoreLimit), articles)
                 recommendations ==
                     Recommended(scored_articles, recommend_count) \o Discovery(sample)
             IN  \E shuffled \in Shuffles(recommendations) :
                   ret' = [op |-> "get_recommendations",
                           user_id |-> user_id,
                           count |-> count,
                           feed_mix |-> feed_mix,
                           excluded_articles |-> excluded_articles,
                           category_weights |-> category_weights,
                           exclude_set |-> exclude_set,
                           scored_articles |-> scored_articles,
                           result |-> Limit(shuffled, count)]
        /\ UNCHANGED <<articles, engagement, sessions, now, calls>>

(***************************************************************************)
(* The caller takes the returned value; the clock moves on.                *)
(***************************************************************************)
Return ==
    /\ ret.op # "idle"
    /\ ret' = [op |-> "idle"]
    /\ UNCHANGED <<articles, engagement, sessions, now, calls>>

Tick ==
    /\ ret.op = "idle"
    /\ now < MaxDay
    /\ now' = now + 1
    /\ UNCHANGED <<articles, engagement, sessions, ret, calls>>

Init ==
    /\ articles = ArticleTable
    /\ engagement = <<>>
    /\ sessions = <<>>
    /\ now = 0
    /\ ret = [op |-> "idle"]
    /\ calls = <<>>

(***************************************************************************)
(* SpecPrefs: one user's events and the preferences learned from them.     *)
(***************************************************************************)
PrefEventInputs ==
    {<<1, "bookmark", 650>>, <<2, "skip", 0>>, <<2, "skip", 650>>, <<3, "view", 300>>}

RecordPrefEvent ==
    /\ Len(engagement) < MaxPrefEvents
    /\ \E x \in PrefEventInputs : record_event(x[1], x[2], "captain", x[3], RatZero)

GetPreferences == get_user_category_preferences("captain", DefaultDays)

NextPrefs == RecordPrefEvent \/ GetPreferences \/ Tick \/ Return

SpecPrefs == Init /\ [][NextPrefs]_vars

(***************************************************************************)
(* Spec: two users' events and the feeds built from them.                  *)
(***************************************************************************)
FeedEventInputs ==
    {<<a, k[1], "captain", k[2]>> :
        a \in ArticleIds,
        k \in {<<"view", 650>>, <<"bookmark", 650>>, <<"skip", 0>>}}
    \cup {<<1, "read", "captain", 300>>, <<1, "view", "guest", 650>>}

FeedMixes == {Rat(0, 1), Rat(3, 10), Rat(1, 1)}

ExcludedInputs == {{}, {2}}

RecordEvent ==
    /\ Len(engagement) < MaxEvents
    /\ \E x \in FeedEventInputs : record_event(x[1], x[2], x[3], x[4], RatZero)

BuildFeed ==
    \E user_id \in Users, count \in 0..MaxCount, feed_mix \in FeedMixes,
       excluded_articles \in ExcludedInputs :
        get_recommendations(user_id, count, feed_mix, excluded_articles)

Next == RecordEvent \/ BuildFeed \/ Return

Spec == Init /\ [][Next]_vars

(***************************************************************************)
(* Properties of get_recommendations, checked under Spec.                  *)
(***************************************************************************)
FeedReturned == ret.op = "get_recommendations"

EntriesOfType(t) == {i \in DOMAIN ret.result : ret.result[i].recommendation_type = t}

\* the user of the returned feed has a view or read event on article a
HasViewedOrRead(a) ==
    \E i \in DOMAIN engagement :
        /\ engagement[i].user_id = ret.user_id
        /\ engagement[i].article_id = a
        /\ engagement[i].event_type \in {"view", "read"}

\* N: the articles outside the caller's exclude set and the user's read articles
Eligible ==
    {a \in DOMAIN articles : a \notin ret.excluded_articles /\ ~HasViewedOrRead(a)}

\* floor(count x (1 - feedMix))
FloorRecommendCount ==
    (ret.count * (ret.feed_mix[2] - ret.feed_mix[1])) \div ret.feed_mix[2]

\* C1: a returned feed holds no article of the caller's exclude set and no
\* article the user has a view or read event on, whether recommended or
\* discovery.
C1_FeedExcludesSeen ==
    FeedReturned =>
        \A i \in DOMAIN ret.result :
            /\ ret.result[i].id \notin ret.excluded_articles
            /\ ~HasViewedOrRead(ret.result[i].id)

\* C1 witness: a feed with a recommended and a discovery entry, built for a
\* user with a view event and a caller's exclude set that is not empty.
C1_Witness ==
    /\ FeedReturned
    /\ ret.excluded_articles # {}
    /\ \E a \in DOMAIN articles : HasViewedOrRead(a)
    /\ EntriesOfType("recommended") # {}
    /\ EntriesOfType("discovery") # {}

\* C2: when at least count articles are eligible, the feed has exactly
\* floor(count x (1 - feedMix)) recommended entries and count minus that many
\* discovery entries, whatever the user's weights.
C2_ExactQuota ==
    (FeedReturned /\ Cardinality(Eligible) >= ret.count) =>
        /\ Cardinality(EntriesOfType("recommended")) = FloorRecommendCount
        /\ Cardinality(EntriesOfType("discovery")) = ret.count - FloorRecommendCount

\* C3: no article id occurs twice in a returned feed.
C3_NoRepeat ==
    FeedReturned =>
        \A i, j \in DOMAIN ret.result :
            ret.result[i].id = ret.result[j].id => i = j

\* C4: the feed's length is min(count, N), N the number of eligible articles.
C4_LengthIsMin ==
    FeedReturned =>
        Len(ret.result) =
            (IF Cardinality(Eligible) < ret.count THEN Cardinality(Eligible) ELSE ret.count)

\* C9: the weights get_recommendations hands to the scorer are the ones
\* get_user_category_preferences returns for the same user and events.
C9_WeightsArePreferences ==
    FeedReturned =>
        LET prefs == UserCategoryPreferences(engagement, ret.user_id, DefaultDays, articles)
        IN  /\ prefs.status = "ok"
            /\ prefs.weights = ret.category_weights

\* C10: the scorer returns no article of the exclude set it was given, with
\* empty weights or not.
C10_ScoredOutsideExcludeSet ==
    FeedReturned =>
        \A i \in DOMAIN ret.scored_articles :
            ret.scored_articles[i].id \notin ret.exclude_set

\* C10 witness: the scorer ran with weights, left out an excluded article
\* that matches them and returned another article.
C10_Witness ==
    /\ FeedReturned
    /\ DOMAIN ret.category_weights # {}
    /\ \E a \in ret.exclude_set : MatchesCategoryFilter(a, ret.category_weights, articles)
    /\ ret.scored_articles # <<>>

(***************************************************************************)
(* Properties of get_user_category_preferences, checked under SpecPrefs.   *)
(***************************************************************************)
PrefsReturned == ret.op = "get_user_category_preferences"

PrefsOk == PrefsReturned /\ ret.result.status = "ok"

AllScoresNegative == \A c \in DOMAIN ret.scores : RatLess(ret.scores[c], RatZero)

\* C5: with in-window events, every returned weight has absolute value at
\* most 1 and some weight is exactly 1 (or exactly -1 when all accumulated
\* scores are negative).
C5_NormalizedRange ==
    (PrefsOk /\ DOMAIN ret.scores # {}) =>
        /\ \A c \in DOMAIN ret.result.weights :
              RatLeq(RatAbs(ret.result.weights[c]), RatOne)
        /\ \/ \E c \in DOMAIN ret.result.weights : ret.result.weights[c] = RatOne
           \/ /\ AllScoresNegative
              /\ \E c \in DOMAIN ret.result.weights : ret.result.weights[c] = RatInt(-1)

\* the maximum accumulated category score is zero
ZeroMaximum ==
    /\ \A c \in DOMAIN ret.scores : RatLeq(ret.scores[c], RatZero)
    /\ \E d \in DOMAIN ret.scores : ret.scores[d] = RatZero

\* C6: get_user_category_preferences never raises a division fault; a zero
\* maximum gives an empty mapping.
C6_NoDivisionFault ==
    PrefsReturned =>
        /\ ret.result.status = "ok"
        /\ ZeroMaximum => ret.result.weights = <<>>

\* the event log is 3 bookmarks of 650 s on article 1 (Science) and one skip
\* of 0 s on article 2 (Sports), all of today
ScenarioLog ==
    /\ Len(engagement) = 4
    /\ \A i \in DOMAIN engagement :
          /\ engagement[i].timestamp = now
          /\ \/ /\ engagement[i].article_id = 1
                /\ engagement[i].event_type = "bookmark"
                /\ engagement[i].duration_seconds = 650
             \/ /\ engagement[i].article_id = 2
                /\ engagement[i].event_type = "skip"
                /\ engagement[i].duration_seconds = 0
    /\ Cardinality({i \in DOMAIN engagement : engagement[i].article_id = 2}) = 1

\* C7: for that log Science gets weight 1 and Sports a weight below 0.
C7_ScenarioWeights ==
    (PrefsReturned /\ ScenarioLog) =>
        /\ ret.result.status = "ok"
        /\ DOMAIN ret.result.weights = {"Science", "Sports"}
        /\ ret.result.weights["Science"] = RatOne
        /\ RatLess(ret.result.weights["Sports"], RatZero)

\* C8: normalization keeps the sign of every accumulated score.
C8_SignPreserved ==
    PrefsOk =>
        \A c \in DOMAIN ret.result.weights :
            /\ RatLess(ret.scores[c], RatZero) => RatLess(ret.result.weights[c], RatZero)
            /\ RatLess(RatZero, ret.scores[c]) => RatLess(RatZero, ret.result.weights[c])

\* C11: with feedMix = 1 every returned entry is a discovery entry with the
\* base score 0.3; none is recommended or carries a scorer's score.
C11_PureDiscovery ==
    (FeedReturned /\ ret.feed_mix = RatOne) =>
        \A i \in DOMAIN ret.result :
            /\ ret.result[i].recommendation_type = "discovery"
            /\ ret.result[i].relevance_score = Rat(3, 10)

\* C11 witness: a feed of feedMix = 1 with entries, for a user the scorer
\* has weights and scored articles for.
C11_Witness ==
    /\ FeedReturned
    /\ ret.feed_mix = RatOne
    /\ ret.result # <<>>
    /\ DOMAIN ret.category_weights # {}
    /\ ret.scored_articles # <<>>

(***************************************************************************)
(* EngagementTracker.get_article_engagement                                *)
(***************************************************************************)
\* SQL NULL, what AVG gives over no rows
Null == <<0, 0>>

\* WHERE article_id = ? AND user_id = ?
PairRows(log, article_id, user_id) ==
    {i \in DOMAIN log : log[i].article_id = article_id /\ log[i].user_id = user_id}

RECURSIVE SqlSum(_, _, _, _)
SqlSum(log, rows, i, column) ==
    IF i = 0 THEN RatZero
    ELSE RatAdd(SqlSum(log, rows, i - 1, column),
                IF i \in rows
                THEN (IF column = "duration_seconds"
                      THEN RatInt(log[i].duration_seconds)
                      ELSE log[i].scroll_depth)
                ELSE RatZero)

\* AVG(column): NULL over no rows
SqlAvg(log, rows, column) ==
    IF rows = {} THEN Null
    ELSE RatDiv(SqlSum(log, rows, Len(log), column), RatInt(Cardinality(rows)))

\* Mutant: the NULL of an empty AVG returned as it is.
OrZeroKeepsNull(x) == x

\* row[1] or 0
OrZero(x) == IF x = Null THEN RatZero ELSE x

\* COUNT(*) ... AND event_type = ?
CountOfType(log, rows, event_type) ==
    Cardinality({i \in rows : log[i].event_type = event_type})

ArticleEngagement(log, article_id, user_id) ==
    LET rows == PairRows(log, article_id, user_id)
    IN  [total_views |-> Cardinality(rows),
         avg_duration |-> OrZero(SqlAvg(log, rows, "duration_seconds")),
         avg_scroll |-> OrZero(SqlAvg(log, rows, "scroll_depth")),
         bookmarks |-> CountOfType(log, rows, "bookmark"),
         skips |-> CountOfType(log, rows, "skip")]

\* Mutant: the look-up is itself recorded as a view.
get_article_engagement_counts_view(article_id, user_id) ==
    /\ ret.op = "idle"
    /\ ret' = [op |-> "get_article_engagement",
               article_id |-> article_id,
               user_id |-> user_id,
               result |-> ArticleEngagement(engagement, article_id, user_id)]
    /\ engagement' = Append(engagement, NewEvent(article_id, "view", user_id, 0, RatZero))
    /\ UNCHANGED <<articles, sessions, now, calls>>

get_article_engagement(article_id, user_id) ==
    /\ ret.op = "idle"
    /\ ret' = [op |-> "get_article_engagement",
               article_id |-> article_id,
               user_id |-> user_id,
               result |-> ArticleEngagement(engagement, article_id, user_id)]
    /\ UNCHANGED <<articles, engagement, sessions, now, calls>>

(***************************************************************************)
(* SpecStore: events of any arguments, and the per-article summaries.      *)
(***************************************************************************)
MaxStoreEvents == 3   \* events recorded in a run of SpecStore

\* <<article_id, event_type, user_id, duration_seconds, scroll_depth>>; the
\* last four name an article or a user that does not exist, a negative
\* duration and a scroll depth above 1.
StoreEventInputs ==
    {<<1, "view", "captain", 650, Rat(1, 2)>>,
     <<1, "bookmark", "captain", 0, Rat(1, 1)>>,
     <<1, "skip", "captain", 0, Rat(0, 1)>>,
     <<2, "view", "guest", 300, Rat(1, 1)>>,
     <<9, "view", "captain", 10, Rat(0, 1)>>,
     <<1, "view", "nobody", 10, Rat(0, 1)>>,
     <<1, "view", "captain", -5, Rat(0, 1)>>,
     <<1, "view", "captain", 10, Rat(2, 1)>>}

RecordStoreEvent ==
    /\ Len(engagement) < MaxStoreEvents
    /\ \E x \in StoreEventInputs : record_event(x[1], x[2], x[3], x[4], x[5])

GetArticleEngagement ==
    \E article_id \in {1, 2}, user_id \in Users :
        get_article_engagement(article_id, user_id)

NextStore == RecordStoreEvent \/ GetArticleEngagement \/ Return

SpecStore == Init /\ [][NextStore]_vars

(***************************************************************************)
(* Properties of the engagement store, checked under SpecStore.            *)
(***************************************************************************)
\* C12: every stored event names an existing article and user and has a
\* duration >= 0 and a scroll depth in [0, 1]: record_event rejects
\* anything else before writing.
C12_StoredEventsValid ==
    \A i \in DOMAIN engagement :
        /\ engagement[i].article_id \in DOMAIN articles
        /\ engagement[i].user_id \in Users
        /\ engagement[i].duration_seconds >= 0
        /\ RatLeq(RatZero, engagement[i].scroll_depth)
        /\ RatLeq(engagement[i].scroll_depth, RatOne)

\* C13: a record_event call appends exactly one event, whose identifier it
\* returns, and that identifier exceeds the one of every earlier event.
C13_AppendsOneGreaterId ==
    [][(ret.op = "idle" /\ ret'.op = "record_event") =>
          /\ Len(engagement') = Len(engagement) + 1
          /\ SubSeq(engagement', 1, Len(engagement)) = engagement
          /\ engagement'[Len(engagement')].id = ret'.event_id
          /\ \A i \in DOMAIN engagement : engagement[i].id < ret'.event_id]_vars

\* C13 witness: record_event returned after two earlier calls.
C13_Witness ==
    /\ ret.op = "record_event"
    /\ Len(engagement) = 3
    /\ ret.event_id = 3

\* C15: get_article_engagement leaves the event store as it is, and what it
\* returned is what a second call in the state it leaves returns.
C15_EngagementIsPureRead ==
    [][(ret.op = "idle" /\ ret'.op = "get_article_engagement") =>
          /\ engagement' = engagement
          /\ ret'.result =
                ArticleEngagement(engagement', ret'.article_id, ret'.user_id)]_vars

\* C15 witness: a summary over two or more events was returned.
C15_Witness ==
    /\ ret.op = "get_article_engagement"
    /\ ret.result.total_views >= 2

\* the pair of the returned summary has no recorded event
NoEventsOfPair ==
    \A i \in DOMAIN engagement :
        ~(engagement[i].article_id = ret.article_id /\ engagement[i].user_id = ret.user_id)

\* C16: for a pair without events every count is 0 and both averages are 0,
\* never NULL.
C16_ZeroSummary ==
    (ret.op = "get_article_engagement" /\ NoEventsOfPair) =>
        /\ ret.result.total_views = 0
        /\ ret.result.bookmarks = 0
        /\ ret.result.skips = 0
        /\ ret.result.avg_duration = RatZero
        /\ ret.result.avg_scroll = RatZero

\* C16 witness: a summary was returned for a pair without events while the
\* store holds events of other pairs.
C16_Witness ==
    /\ ret.op = "get_article_engagement"
    /\ NoEventsOfPair
    /\ engagement # <<>>

(***************************************************************************)
(* SpecFaults: Spec, with storage queries that may fail.                   *)
(* get_recommendations runs its four queries outside any try block, so the *)
(* sqlite3 error of a failing cursor.execute leaves the method.            *)
(***************************************************************************)
FeedQueries ==
    {"_get_category_weights", "_get_read_articles", "_score_articles", "_get_random_articles"}

get_recommendations_query_fails(user_id, count, feed_mix, excluded_articles) ==
    /\ ret.op = "idle"
    /\ \E query \in FeedQueries :
          /\ query = "_get_random_articles" =>
                count - RecommendCount(count, feed_mix) > 0
          /\ ret' = [op |-> "get_recommendations_raised",
                     user_id |-> user_id,
                     count |-> count,
                     feed_mix |-> feed_mix,
                     excluded_articles |-> excluded_articles,
                     raised_in |-> query,
                     error |-> "sqlite3.OperationalError"]
    /\ UNCHANGED <<articles, engagement, sessions, now, calls>>

BuildFeedQueryFails ==
    \E user_id \in Users, count \in 0..MaxCount, feed_mix \in FeedMixes,
       excluded_articles \in ExcludedInputs :
        get_recommendations_query_fails(user_id, count, feed_mix, excluded_articles)

NextFaults == RecordEvent \/ BuildFeed \/ BuildFeedQueryFails \/ Return

SpecFaults == Init /\ [][NextFaults]_vars

\* C14: a get_recommendations call raises the access count of every article
\* by the number of times it returns it, and no other step changes a count.
C14_ServeCountsAccess ==
    [][/\ (ret.op = "idle" /\ ret'.op = "get_recommendations") =>
            \A a \in DOMAIN articles :
                articles'[a].access_count =
                    articles[a].access_count
                    + Cardinality({i \in DOMAIN ret'.result : ret'.result[i].id = a})
       /\ ret'.op # "get_recommendations" =>
            \A a \in DOMAIN articles :
                articles'[a].access_count = articles[a].access_count]_vars

\* C18: get_recommendations never hands an error to its caller, whatever
\* the storage queries do.
C18_NoErrorPropagates == ret.op # "get_recommendations_raised"

(***************************************************************************)
(* SpecScore: _score_articles over article tables of any access counts.    *)
(***************************************************************************)
AccessCounts == {0, 10, 150, 250}

ScoreTables ==
    {[a \in ArticleIds |->
        [cats |-> ArticleTable[a].cats, access_count |-> counts[a]]] :
            counts \in [ArticleIds -> AccessCounts]}

WeightInputs ==
    {<<>>,
     [c \in {"Science"} |-> RatOne],
     [c \in {"Science", "Sports"} |-> IF c = "Science" THEN RatOne ELSE Rat(1, 5)],
     [c \in {"Science", "History"} |-> IF c = "History" THEN RatOne ELSE Rat(2, 5)]}

ExcludeSetInputs == {{}, {1}, {2}}

InitScore ==
    /\ articles \in ScoreTables
    /\ engagement = <<>>
    /\ sessions = <<>>
    /\ now = 0
    /\ ret = [op |-> "idle"]
    /\ calls = <<>>

_score_articles(category_weights, exclude_set) ==
    /\ ret.op = "idle"
    /\ \E rows \in AccessCountOrders(
               ScoreCandidates(category_weights, exclude_set, articles), articles) :
          ret' = [op |-> "_score_articles",
                  category_weights |-> category_weights,
                  exclude_set |-> exclude_set,
                  rows |-> Limit(rows, ScoreLimit),
                  result |-> ScoreArticles(category_weights, Limit(rows, ScoreLimit), articles)]
    /\ UNCHANGED <<articles, engagement, sessions, now, calls>>

Score ==
    \E category_weights \in WeightInputs, exclude_set \in ExcludeSetInputs :
        _score_articles(category_weights, exclude_set)

NextScore == Score \/ Return

SpecScore == InitScore /\ [][NextScore]_vars

ScoreReturned == ret.op = "_score_articles"

\* 0.5 x 0.7 + min(accessCount / 100, 1) x 0.2 x 0.3, in thousandths
NeutralScoreThousandths(access_count) ==
    350 + (IF access_count < 100 THEN (60 * access_count) \div 100 ELSE 60)

\* C19: with empty weights the scorer returns every article outside the
\* exclude set, each scored with category score 0.5, in non-increasing
\* order of access count.
C19_PopularityOrder ==
    (ScoreReturned /\ ret.category_weights = <<>>) =>
        /\ {ret.result[i].id : i \in DOMAIN ret.result}
              = {a \in DOMAIN articles : a \notin ret.exclude_set}
        /\ \A i \in DOMAIN ret.result :
              ret.result[i].score =
                 Rat(NeutralScoreThousandths(articles[ret.result[i].id].access_count), 1000)
        /\ \A i, j \in DOMAIN ret.result :
              i < j => articles[ret.result[i].id].access_count
                         >= articles[ret.result[j].id].access_count

\* C19 witness: scored with empty weights, two articles whose counts differ
\* but are both 100 or more, so that their scores are equal.
C19_Witness ==
    /\ ScoreReturned
    /\ ret.category_weights = <<>>
    /\ \E i, j \in DOMAIN ret.result :
          /\ articles[ret.result[i].id].access_count = 250
          /\ articles[ret.result[j].id].access_count = 150

ContributesLess(older, newer) ==
    \A cat \in articles[older.article_id].cats :
        RatLess(RatAbs(RowsContribution(older, cat, articles, now)),
                RatAbs(RowsContribution(newer, cat, articles, now)))

\* C20: the recency factor is 1 at daysAgo = 0 and falls with every day, and
\* of two events of the same user, kind, duration and article the older one
\* adds strictly less magnitude to the category score.
C20_OlderContributesLess ==
    /\ RecencyFactor(0) = RatOne
    /\ \A d \in 0..MaxDay : RatLess(RecencyFactor(d + 1), RecencyFactor(d))
    /\ \A i, j \in DOMAIN engagement :
          (/\ engagement[i].user_id = engagement[j].user_id
           /\ engagement[i].event_type = engagement[j].event_type
           /\ engagement[i].duration_seconds = engagement[j].duration_seconds
           /\ engagement[i].article_id = engagement[j].article_id
           /\ DaysAgo(engagement[i], now) > DaysAgo(engagement[j], now))
          => ContributesLess(engagement[i], engagement[j])

(***************************************************************************)
(* extract_categories of src/server.py.  A text is a sequence of           *)
(* characters.                                                             *)
(***************************************************************************)
CATEGORY_KEYWORDS ==
    <<
      [category |-> "Science",
       keywords |->
         {<<"p", "h", "y", "s", "i", "c", "s">>,
          <<"c", "h", "e", "m", "i", "s", "t", "r", "y">>,
          <<"b", "i", "o", "l", "o", "g", "y">>,
          <<"s", "c", "i", "e", "n", "t", "i", "s", "t">>,
          <<"r", "e", "s", "e", "a", "r", "c", "h">>,
          <<"e", "x", "p", "e", "r", "i", "m", "e", "n", "t">>,
          <<"s", "c", "i", "e", "n", "t", "i", "f", "i", "c">>,
          <<"t", "h", "e", "o", "r", "y">>,
          <<"d", "i", "s", "c", "o", "v", "e", "r">>}],
      [category |-> "History",
       keywords |->
         {<<"w", "a", "r">>, <<"b", "a", "t", "t", "l", "e">>,
          <<"c", "e", "n", "t", "u", "r", "y">>,
          <<"a", "n", "c", "i", "e", "n", "t">>,
          <<"h", "i", "s", "t", "o", "r", "i", "c">>,
          <<"d", "y", "n", "a", "s", "t", "y">>,
          <<"e", "m", "p", "i", "r", "e">>, <<"r", "e", "v", "o", "l", "t">>,
          <<"t", "r", "e", "a", "t", "y">>}],
      [category |-> "Geography",
       keywords |->
         {<<"c", "o", "u", "n", "t", "r", "y">>, <<"c", "i", "t", "y">>,
          <<"r", "i", "v", "e", "r">>,
          <<"m", "o", "u", "n", "t", "a", "i", "n">>,
          <<"c", "o", "n", "t", "i", "n", "e", "n", "t">>,
          <<"i", "s", "l", "a", "n", "d">>, <<"r", "e", "g", "i", "o", "n">>,
          <<"c", "a", "p", "i", "t", "a", "l">>,
          <<"p", "o", "p", "u", "l", "a", "t", "i", "o", "n">>}],
      [category |-> "Literature",
       keywords |->
         {<<"b", "o", "o", "k">>, <<"a", "u", "t", "h", "o", "r">>,
          <<"n", "o", "v", "e", "l">>, <<"p", "o", "e", "m">>,
          <<"p", "l", "a", "y", "w", "r", "i", "g", "h", "t">>,
          <<"w", "r", "o", "t", "e">>,
          <<"p", "u", "b", "l", "i", "s", "h", "e", "d">>,
          <<"l", "i", "t", "e", "r", "a", "r", "y">>,
          <<"f", "i", "c", "t", "i", "o", "n">>}],
      [category |-> "Arts",
       keywords |->
         {<<"p", "a", "i", "n", "t", "i", "n", "g">>,
          <<"s", "c", "u", "l", "p", "t", "u", "r", "e">>,
          <<"m", "u", "s", "i", "c">>, <<"f", "i", "l", "m">>,
          <<"a", "r", "t", "i", "s", "t">>, <<"m", "u", "s", "e", "u", "m">>,
          <<"g", "a", "l", "l", "e", "r", "y">>,
          <<"e", "x", "h", "i", "b", "i", "t", "i", "o", "n">>}],
      [category |-> "Sports",
       keywords |->
         {<<"g", "a", "m", "e">>, <<"p", "l", "a", "y", "e", "r">>,
          <<"t", "e", "a", "m">>,
          <<"c", "h", "a", "m", "p", "i", "o", "n", "s", "h", "i", "p">>,
          <<"t", "o", "u", "r", "n", "a", "m", "e", "n", "t">>,
          <<"l", "e", "a", "g", "u", "e">>, <<"s", "c", "o", "r", "e">>,
          <<"m", "a", "t", "c", "h">>}],
      [category |-> "Politics",
       keywords |->
         {<<"g", "o", "v", "e", "r", "n", "m", "e", "n", "t">>,
          <<"e", "l", "e", "c", "t", "i", "o", "n">>,
          <<"p", "r", "e", "s", "i", "d", "e", "n", "t">>, <<"l", "a", "w">>,
          <<"p", "a", "r", "l", "i", "a", "m", "e", "n", "t">>,
          <<"m", "i", "n", "i", "s", "t", "e", "r">>,
          <<"s", "e", "n", "a", "t", "e">>,
          <<"c", "o", "n", "g", "r", "e", "s", "s">>}],
      [category |-> "Religion",
       keywords |->
         {<<"g", "o", "d">>, <<"c", "h", "u", "r", "c", "h">>,
          <<"b", "i", "b", "l", "e">>,
          <<"r", "e", "l", "i", "g", "i", "o", "u", "s">>,
          <<"f", "a", "i", "t", "h">>,
          <<"c", "h", "r", "i", "s", "t", "i", "a", "n">>,
          <<"i", "s", "l", "a", "m">>, <<"j", "e", "w", "i", "s", "h">>,
          <<"t", "e", "m", "p", "l", "e">>}],
      [category |-> "Nature",
       keywords |->
         {<<"a", "n", "i", "m", "a", "l">>, <<"p", "l", "a", "n", "t">>,
          <<"s", "p", "e", "c", "i", "e", "s">>,
          <<"e", "c", "o", "s", "y", "s", "t", "e", "m">>,
          <<"e", "n", "v", "i", "r", "o", "n", "m", "e", "n", "t">>,
          <<"b", "i", "r", "d">>, <<"f", "i", "s", "h">>,
          <<"m", "a", "m", "m", "a", "l">>}],
      [category |-> "Technology",
       keywords |->
         {<<"c", "o", "m", "p", "u", "t", "e", "r">>,
          <<"s", "o", "f", "t", "w", "a", "r", "e">>,
          <<"i", "n", "t", "e", "r", "n", "e", "t">>,
          <<"e", "n", "g", "i", "n", "e", "e", "r", "i", "n", "g">>,
          <<"p", "a", "t", "e", "n", "t">>,
          <<"i", "n", "v", "e", "n", "t", "e", "d">>,
          <<"d", "i", "g", "i", "t", "a", "l">>}],
      [category |-> "People",
       keywords |->
         {<<"b", "o", "r", "n">>, <<"d", "i", "e", "d">>,
          <<"b", "i", "o", "g", "r", "a", "p", "h", "y">>,
          <<"k", "i", "n", "g">>, <<"q", "u", "e", "e", "n">>,
          <<"p", "r", "e", "s", "i", "d", "e", "n", "t">>,
          <<"s", "c", "i", "e", "n", "t", "i", "s", "t">>,
          <<"a", "u", "t", "h", "o", "r">>, <<"a", "c", "t", "o", "r">>}]
    >>

person_keywords ==
    {<<"b", "o", "r", "n">>, <<"d", "i", "e", "d">>, <<"k", "i", "n", "g">>,
     <<"q", "u", "e", "e", "n">>,
     <<"p", "r", "e", "s", "i", "d", "e", "n", "t">>,
     <<"e", "m", "p", "e", "r", "o", "r">>,
     <<"s", "c", "i", "e", "n", "t", "i", "s", "t">>,
     <<"a", "u", "t", "h", "o", "r">>, <<"a", "c", "t", "o", "r">>}

UpperCase == <<"A", "B", "C", "D", "E", "F", "G", "H", "I", "J", "K", "L", "M", "N", "O", "P", "Q", "R", "S", "T", "U", "V", "W", "X", "Y", "Z">>
LowerCase == <<"a", "b", "c", "d", "e", "f", "g", "h", "i", "j", "k", "l", "m", "n", "o", "p", "q", "r", "s", "t", "u", "v", "w", "x", "y", "z">>

\* text.lower()
ToLower(text) ==
    [i \in DOMAIN text |->
        IF \E k \in DOMAIN UpperCase : UpperCase[k] = text[i]
        THEN LowerCase[CHOOSE k \in DOMAIN UpperCase : UpperCase[k] = text[i]]
        ELSE text[i]]

\* kw in text_lower
Occurs(kw, text) ==
    \E i \in 1..(Len(text) - Len(kw) + 1) : SubSeq(text, i, i + Len(kw) - 1) = kw

\* score = sum(1 for kw in keywords if kw in text_lower)
KeywordScore(keywords, text_lower) ==
    Cardinality({kw \in keywords : Occurs(kw, text_lower)})

\* the loop over CATEGORY_KEYWORDS.items(), in the dict's order
RECURSIVE ScoredCategoryList(_, _)
ScoredCategoryList(text_lower, n) ==
    IF n = 0 THEN <<>>
    ELSE LET categories == ScoredCategoryList(text_lower, n - 1)
         IN  IF KeywordScore(CATEGORY_KEYWORDS[n].keywords, text_lower) > 0
             THEN Append(categories, CATEGORY_KEYWORDS[n].category)
             ELSE categories

Elements(seq) == {seq[i] : i \in DOMAIN seq}

\* Always add People if person-related keywords
WithPeople(categories, text_lower) ==
    IF /\ \E kw \in person_keywords : Occurs(kw, text_lower)
       /\ "People" \notin Elements(categories)
    THEN Append(categories, "People")
    ELSE categories

\* return categories if categories else ['General']
OrGeneral(categories) == IF categories # <<>> THEN categories ELSE <<"General">>

\* Mutant: the text matched without lower-casing it.
extract_categories_as_typed(text) ==
    OrGeneral(WithPeople(ScoredCategoryList(text, Len(CATEGORY_KEYWORDS)), text))

extract_categories(text) ==
    LET text_lower == ToLower(text)
    IN  OrGeneral(WithPeople(
            ScoredCategoryList(text_lower, Len(CATEGORY_KEYWORDS)), text_lower))

(***************************************************************************)
(* SpecClassify: extract_categories applied to texts made of fragments.    *)
(***************************************************************************)
MaxFragments == 3     \* fragments a classified text is made of

Fragments ==
    {<<"T", "h", "e", " ", "k", "i", "n", "g", " ", "d", "i", "e", "d">>,
     <<"i", "n", " ", "t", "h", "e", " ", "a", "n", "c", "i", "e", "n", "t", " ", "b", "a", "t", "t", "l", "e">>,
     <<"E", "m", "p", "e", "r", "o", "r">>, <<"a", "w", "a", "r", "d">>,
     <<"x", "y", "z">>, <<"P", "R", "E", "S", "I", "D", "E", "N", "T">>,
     <<"f", "i", "s", "h">>}

RECURSIVE TextsOf(_)
TextsOf(n) ==
    IF n = 0 THEN {<<>>}
    ELSE TextsOf(n - 1) \cup Fragments
         \cup {t \o <<" ">> \o f : t \in TextsOf(n - 1) \ {<<>>}, f \in Fragments}

Classify ==
    /\ ret.op = "idle"
    /\ \E text \in TextsOf(MaxFragments) :
          ret' = [op |-> "extract_categories",
                  text |-> text,
                  result |-> extract_categories(text)]
    /\ UNCHANGED <<articles, engagement, sessions, now, calls>>

NextClassify == Classify \/ Return

SpecClassify == Init /\ [][NextClassify]_vars

ClassifyReturned == ret.op = "extract_categories"

Taxonomy ==
    {"Science", "History", "Geography", "Literature", "Arts", "Sports", "Politics",
     "Religion", "Nature", "Technology", "People", "General"}

\* a keyword of category cat occurs in the lower-cased text; for People the
\* biographical keywords count too
KeywordOf(cat, text) ==
    \/ \E n \in DOMAIN CATEGORY_KEYWORDS :
          /\ CATEGORY_KEYWORDS[n].category = cat
          /\ \E kw \in CATEGORY_KEYWORDS[n].keywords : Occurs(kw, ToLower(text))
    \/ /\ cat = "People"
       /\ \E kw \in person_keywords : Occurs(kw, ToLower(text))

\* "The king died in the ancient battle"
KingText ==
    <<"T", "h", "e", " ", "k", "i", "n", "g", " ", "d", "i", "e", "d", " ", "i", "n", " ", "t", "h", "e", " ", "a", "n", "c", "i", "e", "n", "t", " ", "b", "a", "t", "t", "l", "e">>

\* C17: extract_categories returns a non-empty set of taxonomy categories,
\* with a category other than General exactly when one of its keywords
\* occurs in the lower-cased text and {General} exactly when none does; the
\* empty text gives {General}, the king's text History and People.
C17_ClassifyByKeywords ==
    ClassifyReturned =>
        LET found == Elements(ret.result)
        IN  /\ found # {}
            /\ found \subseteq Taxonomy
            /\ \A cat \in Taxonomy \ {"General"} :
                  cat \in found <=> KeywordOf(cat, ret.text)
            /\ found = {"General"}
                  <=> ~(\E cat \in Taxonomy \ {"General"} : KeywordOf(cat, ret.text))
            /\ ret.text = <<>> => found = {"General"}
            /\ ret.text = KingText => {"History", "People"} \subseteq found

\* C17 witness: the king's text was classified.
C17_Witness ==
    /\ ClassifyReturned
    /\ ret.text = KingText

(***************************************************************************)
(* Further properties of get_user_category_preferences (SpecPrefs).        *)
(***************************************************************************)
\* the sum over the user's in-window events on articles of category cat of
\* eventWeight x timeFactor x recencyFactor, each event taken once
RECURSIVE SumOncePerEvent(_, _)
SumOncePerEvent(i, cat) ==
    IF i = 0 THEN RatZero
    ELSE RatAdd(SumOncePerEvent(i - 1, cat),
                IF /\ InWindow(engagement[i], ret.user_id, ret.days, articles, now)
                   /\ cat \in articles[engagement[i].article_id].cats
                THEN EventScore(engagement[i], now)
                ELSE RatZero)

\* C21: before normalization the score of a category is the sum of the
\* scores of the user's in-window events on its articles, each event counted
\* once however many categories its article has.
C21_EventCountedOnce ==
    PrefsReturned =>
        \A c \in DOMAIN ret.scores :
            ret.scores[c] = SumOncePerEvent(Len(engagement), c)

(***************************************************************************)
(* Further properties of get_recommendations (Spec).                       *)
(***************************************************************************)
RecommendedIds ==
    {ret.result[i].id : i \in EntriesOfType("recommended")}

\* C22: the recommended entries are the best-scoring articles of the whole
\* non-excluded pool: no eligible article left out of them, with weighted
\* categories or none (category score 0.5), scores strictly higher than a
\* recommended entry.
C22_RecommendedAreBestOfPool ==
    FeedReturned =>
        \A i \in EntriesOfType("recommended") :
            /\ ret.result[i].id \in Eligible
            /\ ret.result[i].relevance_score
                  = TotalScore(ret.result[i].id, ret.category_weights, articles)
            /\ \A a \in Eligible \ RecommendedIds :
                  ~RatLess(ret.result[i].relevance_score,
                           TotalScore(a, ret.category_weights, articles))

(***************************************************************************)
(* Further properties of _score_articles (SpecScore).                      *)
(***************************************************************************)
\* the largest weight among the article's categories that have one, 0.5
\* when none has
BestWeight(a) ==
    LET present == articles[a].cats \cap DOMAIN ret.category_weights
    IN  IF present = {} THEN RatHalf
        ELSE CHOOSE w \in {ret.category_weights[c] : c \in present} :
                \A c \in present : RatLeq(ret.category_weights[c], w)

\* min(accessCount / 100, 1) x 0.2 x 0.3, in ten-thousandths
BoostShare(a) ==
    IF articles[a].access_count < 100 THEN 6 * articles[a].access_count ELSE 600

\* C23: every scored article has totalScore = categoryScore x 0.7 +
\* popularityBoost x 0.3, categoryScore the largest weight among its
\* weighted categories (0.5 when it has none) and popularityBoost =
\* min(accessCount / 100, 1) x 0.2, the same for every count of 100 and more.
C23_TotalScoreFormula ==
    ScoreReturned =>
        /\ \A i \in DOMAIN ret.result :
              ret.result[i].score =
                 RatAdd(RatMul(BestWeight(ret.result[i].id), Rat(7, 10)),
                        Rat(BoostShare(ret.result[i].id), 10000))
        /\ \A i, j \in DOMAIN ret.result :
              (/\ articles[ret.result[i].id].access_count >= 100
               /\ articles[ret.result[j].id].access_count >= 100
               /\ BestWeight(ret.result[i].id) = BestWeight(ret.result[j].id))
              => ret.result[i].score = ret.result[j].score

\* C23 witness: scored with weights, among them an article of two weighted
\* categories with 250 accesses, one with 150 and one with fewer than 100.
C23_Witness ==
    /\ ScoreReturned
    /\ DOMAIN ret.category_weights = {"Science", "History"}
    /\ Len(ret.result) = 2
    /\ articles[3].access_count = 250
    /\ articles[1].access_count = 150
    /\ \E i \in DOMAIN ret.result : ret.result[i].id = 3

\* position of article a in the rows of the candidate query
RowOf(a) == CHOOSE k \in DOMAIN ret.rows : ret.rows[k] = a

\* C24: the scorer's pairs come in non-increasing order of totalScore, and
\* pairs of equal totalScore in the order of the candidate rows.
C24_SortedStable ==
    ScoreReturned =>
        /\ {ret.result[i].id : i \in DOMAIN ret.result}
              = {ret.rows[k] : k \in DOMAIN ret.rows}
        /\ Len(ret.result) = Len(ret.rows)
        /\ \A i, j \in DOMAIN ret.result :
              i < j =>
                 /\ RatLeq(ret.result[j].score, ret.result[i].score)
                 /\ ret.result[i].score = ret.result[j].score
                       => RowOf(ret.result[i].id) < RowOf(ret.result[j].id)

\* C24 witness: three articles scored, two of equal score, and the sort
\* moved a row: the first candidate row is not the first pair.
C24_Witness ==
    /\ ScoreReturned
    /\ Len(ret.result) = 3
    /\ \E i, j \in DOMAIN ret.result :
          i # j /\ ret.result[i].score = ret.result[j].score
    /\ ret.result[1].id # ret.rows[1]

(***************************************************************************)
(* EngagementTracker.start_session and end_session.  An end_time is <<>>   *)
(* while it is NULL and <<day>> once it is set.                            *)
(***************************************************************************)
\* The columns an INSERT INTO reading_sessions (user_id) leaves to the
\* table's defaults: the session is open, its aggregates are zero.
SessionDefaults ==
    [end_time |-> <<>>, articles_read |-> 0, total_duration_seconds |-> 0]

start_session(user_id) ==
    /\ ret.op = "idle"
    /\ sessions' = Append(sessions,
            [id |-> Len(sessions) + 1,
             user_id |-> user_id,
             start_time |-> now,
             end_time |-> SessionDefaults.end_time,
             articles_read |-> SessionDefaults.articles_read,
             total_duration_seconds |-> SessionDefaults.total_duration_seconds])
    /\ ret' = [op |-> "start_session",
               user_id |-> user_id,
               session_id |-> Len(sessions) + 1]
    /\ UNCHANGED <<articles, engagement, now, calls>>

\* UPDATE reading_sessions SET end_time = CURRENT_TIMESTAMP, ... on one row
EndedSession(s, articles_read, total_duration) ==
    [s EXCEPT !.end_time = <<now>>,
              !.articles_read = articles_read,
              !.total_duration_seconds = total_duration]

\* Mutant: the UPDATE without its WHERE id = ?, every session ended.
end_session_every_row(session_id, articles_read, total_duration) ==
    /\ ret.op = "idle"
    /\ sessions' = [i \in DOMAIN sessions |->
                       EndedSession(sessions[i], articles_read, total_duration)]
    /\ ret' = [op |-> "end_session",
               session_id |-> session_id,
               articles_read |-> articles_read,
               total_duration |-> total_duration]
    /\ UNCHANGED <<articles, engagement, now, calls>>

end_session(session_id, articles_read, total_duration) ==
    /\ ret.op = "idle"
    /\ sessions' = [i \in DOMAIN sessions |->
                       IF sessions[i].id = session_id
                       THEN EndedSession(sessions[i], articles_read, total_duration)
                       ELSE sessions[i]]
    /\ ret' = [op |-> "end_session",
               session_id |-> session_id,
               articles_read |-> articles_read,
               total_duration |-> total_duration]
    /\ UNCHANGED <<articles, engagement, now, calls>>

(***************************************************************************)
(* SpecSessions: sessions started and ended while events are recorded.     *)
(***************************************************************************)
MaxSessions == 2      \* sessions started in a run of SpecSessions

SessionEventInputs == {<<1, "bookmark", 650>>, <<3, "view", 300>>}

\* <<articles_read, total_duration>>
SessionAggregates == {<<0, 0>>, <<3, 650>>}

RecordSessionEvent ==
    /\ Len(engagement) < MaxEvents
    /\ \E x \in SessionEventInputs : record_event(x[1], x[2], "captain", x[3], RatZero)

StartSession ==
    /\ Len(sessions) < MaxSessions
    /\ \E user_id \in Users : start_session(user_id)

\* session ids of the table and one that no session has
EndSession ==
    \E session_id \in 1..(MaxSessions + 1), x \in SessionAggregates :
        end_session(session_id, x[1], x[2])

NextSessions == RecordSessionEvent \/ StartSession \/ EndSession \/ Return

SpecSessions == Init /\ [][NextSessions]_vars

\* what get_user_category_preferences returns and what get_recommendations
\* builds its feed from are the same in the next state
ScoringUnchanged ==
    /\ now' = now
    /\ \A u \in Users :
          /\ UserCategoryPreferences(engagement', u, DefaultDays, articles')
                = UserCategoryPreferences(engagement, u, DefaultDays, articles)
          /\ CategoryWeights(engagement', u, articles')
                = CategoryWeights(engagement, u, articles)
          /\ ReadArticles(engagement', u) = ReadArticles(engagement, u)
          /\ \A excluded \in ExcludedInputs :
                /\ ScoreCandidates(CategoryWeights(engagement', u, articles'),
                                   excluded \cup ReadArticles(engagement', u), articles')
                      = ScoreCandidates(CategoryWeights(engagement, u, articles),
                                       excluded \cup ReadArticles(engagement, u), articles)
                /\ RandomPool(excluded \cup ReadArticles(engagement', u), articles')
                      = RandomPool(excluded \cup ReadArticles(engagement, u), articles)

\* C26: start_session adds one open session with a fresh id; end_session
\* sets the end time and the aggregates of the session of the given id and
\* of no other; both leave the other sessions, the events and what
\* get_user_category_preferences and get_recommendations compute as they were.
C26_SessionBookkeeping ==
    [][/\ (ret.op = "idle" /\ ret'.op = "start_session") =>
            /\ Len(sessions') = Len(sessions) + 1
            /\ SubSeq(sessions', 1, Len(sessions)) = sessions
            /\ sessions'[Len(sessions')].id = ret'.session_id
            /\ sessions'[Len(sessions')].user_id = ret'.user_id
            /\ sessions'[Len(sessions')].end_time = <<>>
            /\ \A i \in DOMAIN sessions : sessions[i].id # ret'.session_id
            /\ engagement' = engagement
            /\ ScoringUnchanged
       /\ (ret.op = "idle" /\ ret'.op = "end_session") =>
            /\ DOMAIN sessions' = DOMAIN sessions
            /\ \A i \in DOMAIN sessions :
                  IF sessions[i].id = ret'.session_id
                  THEN /\ sessions'[i].end_time = <<now>>
                       /\ sessions'[i].articles_read = ret'.articles_read
                       /\ sessions'[i].total_duration_seconds = ret'.total_duration
                       /\ sessions'[i].id = sessions[i].id
                       /\ sessions'[i].user_id = sessions[i].user_id
                       /\ sessions'[i].start_time = sessions[i].start_time
                  ELSE sessions'[i] = sessions[i]
            /\ engagement' = engagement
            /\ ScoringUnchanged]_vars

\* C26 witness: end_session returned for the second of two sessions, the
\* first still open, with events in the store.
C26_Witness ==
    /\ ret.op = "end_session"
    /\ ret.session_id = 2
    /\ Len(sessions) = 2
    /\ sessions[1].end_time = <<>>
    /\ sessions[2].end_time # <<>>
    /\ sessions[2].articles_read = 3
    /\ engagement # <<>>

(***************************************************************************)
(* Calls that run at the same time (the server is threaded).  Every call   *)
(* opens a connection of its own; SQLite lets one connection at a time     *)
(* hold the write lock, from its INSERT to its commit, and fails another   *)
(* connection's INSERT with "database is locked" once its wait is over.    *)
(* A SELECT reads the committed rows in one step.                          *)
(***************************************************************************)
MaxCalls == 3         \* connections open at the same time in SpecConcurrent

Connections == 1..MaxCalls

IdleCall ==
    [op |-> "none", pc |-> "idle", args |-> <<>>, row |-> <<>>, selects |-> 0, result |-> 0]

\* SELECT statements on the engagement table of each reading call
EngagementSelects(op) ==
    CASE op = "get_recommendations" -> 2
      [] op = "get_user_category_preferences" -> 1
      [] op = "get_article_engagement" -> 3

ReadingCalls ==
    {"get_recommendations", "get_user_category_preferences", "get_article_engagement"}

\* Mutant: an INSERT that does not wait for the write lock.
WriteLockIgnored(c) == TRUE

\* no other connection is between its INSERT and its commit
WriteLockFree(c) ==
    \A d \in Connections \ {c} : calls[d].pc # "inserted"

\* conn = sqlite3.connect(self.db_path) of record_event
call_record_event(c, article_id, event_type, user_id, duration_seconds) ==
    /\ calls[c].pc = "idle"
    /\ calls' = [calls EXCEPT ![c] =
                    [IdleCall EXCEPT !.op = "record_event",
                                     !.pc = "connected",
                                     !.args = <<article_id, event_type, user_id,
                                                duration_seconds>>]]
    /\ UNCHANGED <<articles, engagement, sessions, now, ret>>

\* cursor.execute(INSERT ...): the row and its id, inside the transaction
record_event_insert(c) ==
    /\ calls[c].op = "record_event"
    /\ calls[c].pc = "connected"
    /\ WriteLockFree(c)
    /\ calls' = [calls EXCEPT ![c].pc = "inserted",
                              ![c].row = NewEvent(calls[c].args[1], calls[c].args[2],
                                                  calls[c].args[3], calls[c].args[4],
                                                  RatZero)]
    /\ UNCHANGED <<articles, engagement, sessions, now, ret>>

\* cursor.execute(INSERT ...) raising sqlite3.OperationalError: database is locked
record_event_locked(c) ==
    /\ calls[c].op = "record_event"
    /\ calls[c].pc = "connected"
    /\ ~WriteLockFree(c)
    /\ calls' = [calls EXCEPT ![c].pc = "raised"]
    /\ UNCHANGED <<articles, engagement, sessions, now, ret>>

\* event_id = cursor.lastrowid; conn.commit(); conn.close(); return event_id
record_event_commit(c) ==
    /\ calls[c].op = "record_event"
    /\ calls[c].pc = "inserted"
    /\ engagement' = Append(engagement, calls[c].row)
    /\ calls' = [calls EXCEPT ![c].pc = "done", ![c].result = calls[c].row.id]
    /\ UNCHANGED <<articles, sessions, now, ret>>

\* conn = sqlite3.connect(self.db_path) of a reading call
call_read(c, op) ==
    /\ calls[c].pc = "idle"
    /\ calls' = [calls EXCEPT ![c] = [IdleCall EXCEPT !.op = op, !.pc = "connected"]]
    /\ UNCHANGED <<articles, engagement, sessions, now, ret>>

\* one SELECT of a reading call; result: the rows of the table it saw.
\* After its last SELECT the call returns.
read_select(c) ==
    /\ calls[c].op \in ReadingCalls
    /\ calls[c].pc = "connected"
    /\ calls' = [calls EXCEPT
                    ![c].selects = calls[c].selects + 1,
                    ![c].result = Len(engagement),
                    ![c].pc = IF calls[c].selects + 1 = EngagementSelects(calls[c].op)
                              THEN "done" ELSE "connected"]
    /\ UNCHANGED <<articles, engagement, sessions, now, ret>>

(***************************************************************************)
(* SpecConcurrent: one call per connection, interleaved statement by       *)
(* statement.                                                              *)
(***************************************************************************)
ConcurrentEventInputs ==
    {<<1, "view", "captain", 650>>, <<2, "skip", "guest", 0>>}

InitConcurrent ==
    /\ articles = ArticleTable
    /\ engagement = <<>>
    /\ sessions = <<>>
    /\ now = 0
    /\ ret = [op |-> "idle"]
    /\ calls = [c \in Connections |-> IdleCall]

CallRecordEvent ==
    \E c \in Connections, x \in ConcurrentEventInputs :
        call_record_event(c, x[1], x[2], x[3], x[4])

Insert == \E c \in Connections : record_event_insert(c)

Locked == \E c \in Connections : record_event_locked(c)

Commit == \E c \in Connections : record_event_commit(c)

CallRead == \E c \in Connections, op \in ReadingCalls : call_read(c, op)

Select == \E c \in Connections : read_select(c)

NextConcurrent == CallRecordEvent \/ Insert \/ Locked \/ Commit \/ CallRead \/ Select

SpecConcurrent == InitConcurrent /\ [][NextConcurrent]_vars

\* the record_event calls that have returned
Completed == {c \in Connections : calls[c].op = "record_event" /\ calls[c].pc = "done"}

\* the events of the store are those of the completed calls, one each, with
\* identifiers that differ
OneEventPerCompletedCall ==
    /\ Len(engagement) = Cardinality(Completed)
    /\ \A i, j \in DOMAIN engagement : engagement[i].id = engagement[j].id => i = j
    /\ \A c, d \in Completed : calls[c].result = calls[d].result => c = d
    /\ \A c \in Completed :
          \E i \in DOMAIN engagement :
              /\ engagement[i].id = calls[c].result
              /\ engagement[i].article_id = calls[c].args[1]
              /\ engagement[i].event_type = calls[c].args[2]
              /\ engagement[i].user_id = calls[c].args[3]
              /\ engagement[i].duration_seconds = calls[c].args[4]

\* C25: however record_event calls interleave with each other and with the
\* reading calls, the n completed ones leave exactly n events with n
\* distinct identifiers, and no step changes or removes a stored event.
C25_AppendOnlyUnderConcurrency ==
    [][/\ SubSeq(engagement', 1, Len(engagement)) = engagement
       /\ Len(engagement') >= Len(engagement)
       /\ OneEventPerCompletedCall']_vars

\* C25 witness: two record_event calls have completed and a third, whose
\* INSERT met the write lock, has raised.
C25_Witness ==
    /\ Cardinality(Completed) = 2
    /\ \E c \in Connections : calls[c].pc = "raised"

(***************************************************************************)
(* SpecWeights: _get_category_weights over event histories of every kind   *)
(* of event, duration and sign of the sum.                                 *)
(***************************************************************************)
MaxWeightEvents == 3  \* events recorded in a run of SpecWeights

\* <<article_id, event_type, user_id, duration_seconds>>
WeightEventInputs ==
    {<<1, "view", "captain", 650>>,
     <<1, "skip", "captain", 0>>,
     <<2, "skip", "captain", 650>>,
     <<2, "read", "guest", 300>>,
     <<3, "bookmark", "captain", 300>>,
     <<3, "scroll", "captain", -5>>}

RecordWeightEvent ==
    /\ Len(engagement) < MaxWeightEvents
    /\ \E x \in WeightEventInputs : record_event(x[1], x[2], x[3], x[4], RatZero)

GetCategoryWeights == \E user_id \in Users : _get_category_weights(user_id)

NextWeights == RecordWeightEvent \/ GetCategoryWeights \/ Return

SpecWeights == Init /\ [][NextWeights]_vars

WeightsReturned == ret.op = "_get_category_weights"

\* the user of the returned weights has an event on an article with a category
HasCategoryEvent ==
    \E i \in DOMAIN engagement :
        /\ engagement[i].user_id = ret.user_id
        /\ engagement[i].article_id \in DOMAIN articles
        /\ articles[engagement[i].article_id].cats # {}

\* C28: _get_category_weights never faults; it returns the empty mapping
\* for a user without events and otherwise weights that all lie in (0, 1],
\* one of them equal to 1.
C28_WeightsInUnitRange ==
    WeightsReturned =>
        /\ ret.status = "ok"
        /\ DOMAIN ret.result = {} <=> ~HasCategoryEvent
        /\ \A c \in DOMAIN ret.result :
              /\ RatLess(RatZero, ret.result[c])
              /\ RatLeq(ret.result[c], RatOne)
        /\ DOMAIN ret.result # {} => \E c \in DOMAIN ret.result : ret.result[c] = RatOne

\* C28 witness: weights returned where one category's sum is zero and
\* another one's is negative.
C28_Witness ==
    /\ WeightsReturned
    /\ \E c \in DOMAIN ret.sums : ret.sums[c] = RatZero
    /\ \E c \in DOMAIN ret.sums : RatLess(ret.sums[c], RatZero)

(***************************************************************************)
(* get_articles of src/server.py, the handler of GET /api/articles, with   *)
(* algorithm and user_id left at their defaults (no re-ordering).  The     *)
(* request being served is calls[1].                                       *)
(***************************************************************************)
MaxLimit == 2         \* largest `limit` asked of get_articles

\* the articles the source can return
SourcePool ==
    {[title |-> "Isaac Newton", categories |-> {"Science", "People"}],
     [title |-> "Charles Darwin", categories |-> {"Science"}],
     [title |-> "Nile", categories |-> {"Geography"}]}

\* get_random_articles(limit, source): up to `limit` articles, any of them
\* more than once, or none at all (every failure of the source is caught)
SourceResults(limit) ==
    UNION {[1..n -> SourcePool] : n \in 0..limit}

\* if selected_category and selected_category != 'all'
CategorySelected(selected_category) ==
    selected_category # "" /\ selected_category # "all"

\* [a for a in articles if selected_category in a['categories']]
FilterByCategory(fetched, selected_category) ==
    LET Carries(a) == selected_category \in a.categories
    IN  SelectSeq(fetched, Carries)

\* for m in more: append m when it carries the category and is not in
\* articles yet; break once articles holds `limit` of them
RECURSIVE AppendMatching(_, _, _, _, _)
AppendMatching(listed, more, i, selected_category, limit) ==
    IF i > Len(more) THEN listed
    ELSE IF /\ selected_category \in more[i].categories
            /\ more[i] \notin Elements(listed)
         THEN IF Len(listed) + 1 >= limit
              THEN Append(listed, more[i])
              ELSE AppendMatching(Append(listed, more[i]), more, i + 1,
                                  selected_category, limit)
         ELSE AppendMatching(listed, more, i + 1, selected_category, limit)

\* the first get_random_articles call and the filter
get_articles(limit, selected_category) ==
    /\ calls = <<>>
    /\ \E fetched \in SourceResults(limit) :
          calls' = <<[op |-> "get_articles",
                      limit |-> limit,
                      selected_category |-> selected_category,
                      articles |-> IF CategorySelected(selected_category)
                                   THEN FilterByCategory(fetched, selected_category)
                                   ELSE fetched,
                      more |-> <<>>,
                      pc |-> IF CategorySelected(selected_category)
                             THEN "while" ELSE "return"]>>
    /\ UNCHANGED <<articles, engagement, sessions, now, ret>>

\* while len(articles) < limit: more = get_random_articles(limit, source)
get_articles_more ==
    /\ calls # <<>>
    /\ calls[1].pc = "while"
    /\ Len(calls[1].articles) < calls[1].limit
    /\ \E more \in SourceResults(calls[1].limit) :
          calls' = <<[calls[1] EXCEPT !.more = more, !.pc = "for"]>>
    /\ UNCHANGED <<articles, engagement, sessions, now, ret>>

\* for m in more: ...
get_articles_append ==
    /\ calls # <<>>
    /\ calls[1].pc = "for"
    /\ calls' = <<[calls[1] EXCEPT
                      !.articles = AppendMatching(calls[1].articles, calls[1].more, 1,
                                                  calls[1].selected_category,
                                                  calls[1].limit),
                      !.more = <<>>,
                      !.pc = "while"]>>
    /\ UNCHANGED <<articles, engagement, sessions, now, ret>>

\* the loop is over: return jsonify({'articles': articles[:limit], ...})
get_articles_return ==
    /\ calls # <<>>
    /\ \/ calls[1].pc = "return"
       \/ /\ calls[1].pc = "while"
          /\ Len(calls[1].articles) >= calls[1].limit
    /\ calls' = <<[calls[1] EXCEPT
                      !.articles = Limit(calls[1].articles, calls[1].limit),
                      !.pc = "done"]>>
    /\ UNCHANGED <<articles, engagement, sessions, now, ret>>

\* the response is sent; the next request may come
ResponseSent ==
    /\ calls # <<>>
    /\ calls[1].pc = "done"
    /\ calls' = <<>>
    /\ UNCHANGED <<articles, engagement, sessions, now, ret>>

(***************************************************************************)
(* SpecListing: requests to /api/articles, one at a time.  The thread that *)
(* serves a request keeps running, so every step of the handler that       *)
(* stays possible is taken; the source may answer anything.                *)
(***************************************************************************)
\* "": no category parameter
CategoryInputs == {"", "all", "Science", "Sports"}

ListArticles ==
    \E limit \in 0..MaxLimit, selected_category \in CategoryInputs :
        get_articles(limit, selected_category)

NextListing ==
    \/ ListArticles
    \/ get_articles_more
    \/ get_articles_append
    \/ get_articles_return
    \/ ResponseSent

SpecListing ==
    /\ Init
    /\ [][NextListing]_vars
    /\ WF_vars(get_articles_more)
    /\ WF_vars(get_articles_append)
    /\ WF_vars(get_articles_return)

SelectedRequest ==
    /\ calls # <<>>
    /\ calls[1].op = "get_articles"
    /\ CategorySelected(calls[1].selected_category)

ListingDone == calls # <<>> /\ calls[1].pc = "done"

\* C27: a get_articles request with a selected category ends, whatever the
\* source returns, and it returns at most `limit` articles, each of which
\* carries the category.
C27_ListingTerminates ==
    /\ [](SelectedRequest /\ ListingDone =>
            /\ Len(calls[1].articles) <= calls[1].limit
            /\ \A i \in DOMAIN calls[1].articles :
                  calls[1].selected_category \in calls[1].articles[i].categories)
    /\ SelectedRequest ~> ListingDone

====
